---------------------------- MODULE Spec2Model ----------------------------
(***************************************************************************)
(* A model of the document-intake pipeline of eduardplesu/documentprocessing*)
(*   src/app/utils.py           validate_cnp                                *)
(*   src/app/azure_services.py  remove_code_blocks, get_field_value,        *)
(*                              process_id_document,                        *)
(*                              process_handwritten_document,               *)
(*                              clean_text_with_openai,                     *)
(*                              extract_fields_with_openai                  *)
(*   src/main.py                the two caller flows                        *)
(*                                                                         *)
(* A Python str is a sequence of one-character strings.  Characters that   *)
(* cannot be written as one printable ASCII character have a name:         *)
(*   "NL" newline, "SP" space, "BT" backtick, "QT" double quote,           *)
(*   "U1", "U3" the non-ASCII decimal digits ARABIC-INDIC ONE and THREE    *)
(*   (Unicode category Nd), "SUP2" SUPERSCRIPT TWO (category No).          *)
(***************************************************************************)
EXTENDS Integers, Sequences, FiniteSets, TLC

VARIABLES
    cnp_arg,      \* validate_cnp: the argument
    cnp_ret,      \* validate_cnp: "pending", then "True" | "False" | the exception raised
    text,         \* remove_code_blocks: the argument
    norm_pc,      \* "start", "once" (applied to text), "twice" (applied to its result)
    norm_out,     \* remove_code_blocks: the value last returned
    field,        \* get_field_value: the argument
    fv_ret,       \* get_field_value: how the call ended
    flow,         \* main.py: "id" (Step 1) or "hw" (Step 2); "" when not run
    pc,           \* the position of the run
    ocr_resp,     \* what the OCR backend returned: documents, or pages
    clean_resp,   \* what the clean completion returned
    cleaned_text, \* process_handwritten_document: cleaned_text
    json_text,    \* extract_fields_with_openai: content after remove_code_blocks
    calls,        \* the backend calls issued, in order
    loads_called, \* json.loads has been called
    raised_at,    \* the statement whose exception ended the pipeline, "" if none
    result,       \* what the pipeline returned
    escaped,      \* an exception left the pipeline function
    ui,           \* the messages main.py has shown
    writes,       \* the rows the persistence store has been given
    save_ret,     \* save_id_data / save_processed_text: how the call ended
    conn_opened,  \* the connections pyodbc.connect has returned
    conn_closed   \* the calls of conn.close()

cnpVars == <<cnp_arg, cnp_ret>>
normVars == <<text, norm_pc, norm_out>>
fieldVars == <<field, fv_ret>>
dbVars == <<save_ret, conn_opened, conn_closed>>
runVars == <<flow, pc, ocr_resp, clean_resp, cleaned_text, json_text, calls, loads_called,
             raised_at, result, escaped, ui, writes>>
vars == <<cnp_arg, cnp_ret, text, norm_pc, norm_out, field, fv_ret, flow, pc,
          ocr_resp, clean_resp, cleaned_text, json_text, calls, loads_called, raised_at,
          result, escaped, ui, writes, save_ret, conn_opened, conn_closed>>

---------------------------------------------------------------------------
(* Characters                                                              *)

AsciiDigits == {"0", "1", "2", "3", "4", "5", "6", "7", "8", "9"}

\* Characters of Unicode category Nd: what \d matches in a str pattern and
\* what int() converts.
DecimalChars == AsciiDigits \cup {"U1", "U3"}

\* str.isdigit: the decimal characters and the digits of category No.
IsDigitChar(c) == c \in DecimalChars \cup {"SUP2"}

\* str.isspace, which is also what \s matches and what str.strip removes.
IsSpace(c) == c \in {"NL", "SP"}

\* int(c) for a one-character string: its value, or ValueError.
IntRaises(c) == c \notin DecimalChars

IntOf(c) ==
    CASE c = "0" -> 0 [] c = "1" -> 1 [] c = "2" -> 2 [] c = "3" -> 3
      [] c = "4" -> 4 [] c = "5" -> 5 [] c = "6" -> 6 [] c = "7" -> 7
      [] c = "8" -> 8 [] c = "9" -> 9 [] c = "U1" -> 1 [] c = "U3" -> 3

RECURSIVE SumTo(_, _)
\* sum(f[i] for i in range(n))
SumTo(f, n) == IF n = 0 THEN 0 ELSE f[n] + SumTo(f, n - 1)

\* str.strip(): leading and trailing whitespace removed.
RECURSIVE LStrip(_)
LStrip(s) == IF s # <<>> /\ IsSpace(Head(s)) THEN LStrip(Tail(s)) ELSE s

RECURSIVE RStrip(_)
RStrip(s) ==
    IF s # <<>> /\ IsSpace(s[Len(s)]) THEN RStrip(SubSeq(s, 1, Len(s) - 1)) ELSE s

Strip(s) == RStrip(LStrip(s))

---------------------------------------------------------------------------
(* Python values and exceptions                                            *)

\* A value: its type, and its characters when it is a str, its number when it
\* is an int.
PyNone == [type |-> "NoneType", s |-> <<>>, n |-> 0]
PyStr(s) == [type |-> "str", s |-> s, n |-> 0]
PyInt(n) == [type |-> "int", s |-> <<>>, n |-> n]
\* A datetime.date, as the OCR backend returns for a date field.
PyDate == [type |-> "date", s |-> <<>>, n |-> 0]

\* bool(v)
Truthy(v) ==
    CASE v.type = "NoneType" -> FALSE
      [] v.type = "str" -> v.s # <<>>
      [] v.type = "int" -> v.n # 0
      [] OTHER -> TRUE

\* How a call ends: it returns val, or raises exc with str(exc) = msg.
Pending == [how |-> "pending", exc |-> "", msg |-> "", val |-> <<>>]
Returns(v) == [how |-> "returned", exc |-> "", msg |-> "", val |-> v]
Raises(exc, m) == [how |-> "raised", exc |-> exc, msg |-> m, val |-> <<>>]

\* v.strip(): only a str has the method.
NoStripMessage(v) == "'" \o v.type \o "' object has no attribute 'strip'"

StripValue(v) ==
    IF v.type = "str" THEN Returns(Strip(v.s))
    ELSE Raises("AttributeError", NoStripMessage(v))

\* The components a specification does not exercise stay as constructed.
CnpIdle == cnp_arg = <<>> /\ cnp_ret = "pending"
NormIdle == text = <<>> /\ norm_pc = "start" /\ norm_out = <<>>
FieldIdle == field = [kind |-> "None"] /\ fv_ret = Pending
RunIdle ==
    /\ flow = "" /\ pc = "idle"
    /\ ocr_resp = <<>> /\ clean_resp = Pending /\ cleaned_text = <<>>
    /\ json_text = <<>> /\ calls = <<>> /\ loads_called = FALSE /\ raised_at = ""
    /\ result = <<>> /\ escaped = FALSE /\ ui = <<>> /\ writes = <<>>
DbIdle == save_ret = Pending /\ conn_opened = 0 /\ conn_closed = 0

---------------------------------------------------------------------------
(* utils.py: validate_cnp                                                  *)

control_weights == <<2, 7, 9, 1, 4, 6, 3, 5, 8, 2, 7, 9>>

\* re.match(r"^[1-8]\d{12}$", cnp): one of 1..8, then twelve \d, then the end
\* of the string; without re.MULTILINE, $ also matches just before a newline
\* that ends the string.
CnpPatternMatches(cnp) ==
    /\ Len(cnp) \in {Len(control_weights) + 1, Len(control_weights) + 2}
    /\ cnp[1] \in {"1", "2", "3", "4", "5", "6", "7", "8"}
    /\ \A i \in 2..(Len(control_weights) + 1) : cnp[i] \in DecimalChars
    /\ Len(cnp) = Len(control_weights) + 2 => cnp[Len(cnp)] = "NL"

\* control_digit of lines 27-30, from the converted digits.
ControlDigitNoRemap(cnp_digits) ==
    SumTo([i \in 1..Len(control_weights) |-> cnp_digits[i] * control_weights[i]],
          Len(control_weights)) % 11

ControlDigit(cnp_digits) ==
    LET control_sum ==
            SumTo([i \in 1..Len(control_weights) |->
                       cnp_digits[i] * control_weights[i]],
                  Len(control_weights))
        control_digit == control_sum % 11
    IN  IF control_digit = 10 THEN 1 ELSE control_digit

\* The function's outcome: "True", "False", or the name of an exception that
\* leaves it.  The only exception its body can raise is int()'s ValueError, in
\* the list comprehension of line 22, which line 23 catches.
validate_cnp(cnp) ==
    IF cnp = <<>> \/ ~CnpPatternMatches(cnp) THEN "False"
    ELSE IF \E i \in 1..Len(cnp) : IntRaises(cnp[i]) THEN "False"
    ELSE LET cnp_digits == [i \in 1..Len(cnp) |-> IntOf(cnp[i])]
         IN  IF cnp_digits[Len(cnp)] = ControlDigit(cnp_digits)
             THEN "True" ELSE "False"

\* The arguments tried: thirteen characters (a first one, ten fixed digits, a
\* twelfth and a last), with at most one of three places replaced by a
\* character that is no ASCII digit, followed by up to MaxTail more
\* characters; and every proper prefix of one valid code.
MaxTail == 1

CnpMid == <<"9", "0", "0", "1", "0", "1", "2", "2", "0", "0">>

CnpBodies ==
    {<<a>> \o CnpMid \o <<b, z>> :
        a \in {"0", "1", "2", "8", "9", "U1", "x"},
        b \in AsciiDigits,
        z \in AsciiDigits \cup {"U3", "NL", "x"}}

CnpReplaced ==
    CnpBodies \cup
    {[s EXCEPT ![p] = c] : s \in CnpBodies, p \in {2, 7, 12}, c \in {"U3", "NL", "x"}}

RECURSIVE SeqsUpTo(_, _)
\* All sequences over S of length at most n.
SeqsUpTo(S, n) ==
    IF n = 0 THEN {<<>>}
    ELSE LET shorter == SeqsUpTo(S, n - 1)
         IN  shorter \cup {Append(s, c) : s \in shorter, c \in S}

CnpArgs ==
    {s \o t : s \in CnpReplaced, t \in SeqsUpTo({"NL", "0", "x"}, MaxTail)}
    \cup {SubSeq(<<"1">> \o CnpMid \o <<"0", "1">>, 1, n) : n \in 0..12}

CnpInit ==
    /\ cnp_arg \in CnpArgs
    /\ cnp_ret = "pending"
    /\ NormIdle /\ FieldIdle /\ RunIdle /\ DbIdle

Validate ==
    /\ cnp_ret = "pending"
    /\ cnp_ret' = validate_cnp(cnp_arg)
    /\ UNCHANGED <<cnp_arg, normVars, fieldVars, runVars, dbVars>>

CnpNext == Validate

SpecCnp == CnpInit /\ [][CnpNext]_vars

---------------------------------------------------------------------------
(* C1: validate_cnp returns a boolean for every string, and returns True   *)
(* exactly when the string is thirteen decimal digit characters, the first *)
(* one of 1..8, whose first twelve digits weighted by 2,7,9,1,4,6,3,5,8,2, *)
(* 7,9 sum, modulo 11 and with 10 read as 1, to the thirteenth.            *)
CnpChecksumOk(s) ==
    LET d == [i \in 1..13 |-> IntOf(s[i])]
        w == <<2, 7, 9, 1, 4, 6, 3, 5, 8, 2, 7, 9>>
        r == (d[1]*w[1] + d[2]*w[2] + d[3]*w[3] + d[4]*w[4] + d[5]*w[5] + d[6]*w[6]
              + d[7]*w[7] + d[8]*w[8] + d[9]*w[9] + d[10]*w[10] + d[11]*w[11]
              + d[12]*w[12]) % 11
    IN  d[13] = (IF r = 10 THEN 1 ELSE r)

CnpWellFormed(s) ==
    /\ Len(s) = 13
    /\ \A i \in 1..13 : s[i] \in DecimalChars
    /\ s[1] \in {"1", "2", "3", "4", "5", "6", "7", "8"}

C1_ValidateCnpExact ==
    cnp_ret # "pending" =>
        /\ cnp_ret \in {"True", "False"}
        /\ (cnp_ret = "True") <=> (CnpWellFormed(cnp_arg) /\ CnpChecksumOk(cnp_arg))

\* The code whose weighted sum is 10 modulo 11 and whose last digit is 1 has
\* been accepted.
C1_Witness ==
    /\ cnp_arg = <<"1">> \o CnpMid \o <<"0", "1">>
    /\ cnp_ret = "True"

---------------------------------------------------------------------------
(* azure_services.py: remove_code_blocks                                   *)

Fence == <<"BT", "BT", "BT">>
JsonTag == <<"j", "s", "o", "n">>
\* What both patterns end with: \n```
CloseFence == <<"NL">> \o Fence

\* The literal lit occurs in t at position i.
OccursAt(t, i, lit) ==
    /\ i >= 1
    /\ i + Len(lit) - 1 <= Len(t)
    /\ SubSeq(t, i, i + Len(lit) - 1) = lit

RECURSIVE SpaceRun(_, _)
\* The number of whitespace characters of t from position p on: the most \s*
\* can take there.
SpaceRun(t, p) ==
    IF p <= Len(t) /\ IsSpace(t[p]) THEN 1 + SpaceRun(t, p + 1) ELSE 0

\* A greedy group, ([\s\S]*), would end before the last \n``` instead.
LastCloseFrom(t, c) ==
    LET es == {e \in c..Len(t) : OccursAt(t, e, CloseFence)}
    IN  IF es = {} THEN 0 ELSE CHOOSE e \in es : \A f \in es : e >= f

\* ([\s\S]*?)\n``` from position c: the lazy group grows one character at a
\* time until \n``` follows it, so it ends before the first \n``` at or after
\* c.  The position of that \n```, or 0 when there is none.
FirstCloseFrom(t, c) ==
    LET es == {e \in c..Len(t) : OccursAt(t, e, CloseFence)}
    IN  IF es = {} THEN 0 ELSE CHOOSE e \in es : \A f \in es : e <= f

\* The pattern  open \s* \n ([\s\S]*?) \n```  tried at position i, as the
\* backtracking matcher tries it: \s* first takes the whole whitespace run and
\* gives characters back one at a time until a newline follows it and the rest
\* of the pattern matches.  [found, group1].
MatchAt(t, i, open) ==
    LET p == i + Len(open)
        ks == {k \in 0..(SpaceRun(t, p) - 1) :
                  t[p + k] = "NL" /\ FirstCloseFrom(t, p + k + 1) # 0}
    IN  IF ~OccursAt(t, i, open) \/ ks = {}
        THEN [found |-> FALSE, group1 |-> <<>>]
        ELSE LET k == CHOOSE k \in ks : \A j \in ks : j <= k
                 c == p + k + 1
             IN  [found |-> TRUE, group1 |-> SubSeq(t, c, FirstCloseFrom(t, c) - 1)]

\* re.search(pattern, text): the match at the leftmost position that has one.
ReSearch(t, open) ==
    LET starts == {i \in 1..Len(t) : MatchAt(t, i, open).found}
    IN  IF starts = {} THEN [found |-> FALSE, group1 |-> <<>>]
        ELSE MatchAt(t, CHOOSE i \in starts : \A j \in starts : i <= j, open)

\* Line 43: r"```json\s*\n([\s\S]*?)\n```"
SearchTagged(t) == ReSearch(t, Fence \o JsonTag)

\* Line 49: r"```\s*\n([\s\S]*?)\n```"
SearchGeneric(t) == ReSearch(t, Fence)

remove_code_blocks_generic_first(t) ==
    IF SearchGeneric(t).found THEN Strip(SearchGeneric(t).group1)
    ELSE IF SearchTagged(t).found THEN Strip(SearchTagged(t).group1)
    ELSE Strip(t)

remove_code_blocks(t) ==
    IF SearchTagged(t).found THEN Strip(SearchTagged(t).group1)
    ELSE IF SearchGeneric(t).found THEN Strip(SearchGeneric(t).group1)
    ELSE Strip(t)

\* The texts tried: up to MaxPieces pieces, one after the other.  A piece is a
\* fence marker, the tag, a newline, a space, a letter, a single backtick, a
\* closing newline-and-marker, a whole generic block or a whole tagged block.
MaxPieces == 4

GenericBlock == Fence \o <<"NL", "g", "NL">> \o Fence
TaggedBlock == Fence \o JsonTag \o <<"NL", "t", "NL">> \o Fence

Pieces ==
    {Fence, JsonTag, <<"NL">>, <<"SP">>, <<"a">>, <<"BT">>, CloseFence,
     GenericBlock, TaggedBlock}

RECURSIVE TextsUpTo(_)
TextsUpTo(n) ==
    IF n = 0 THEN {<<>>}
    ELSE LET shorter == TextsUpTo(n - 1)
         IN  shorter \cup {s \o p : s \in shorter, p \in Pieces}

NormInit ==
    /\ text \in TextsUpTo(MaxPieces)
    /\ norm_pc = "start"
    /\ norm_out = <<>>
    /\ CnpIdle /\ FieldIdle /\ RunIdle /\ DbIdle

Normalize ==
    /\ norm_pc = "start"
    /\ norm_out' = remove_code_blocks(text)
    /\ norm_pc' = "once"
    /\ UNCHANGED <<text, cnpVars, fieldVars, runVars, dbVars>>

NormalizeAgain ==
    /\ norm_pc = "once"
    /\ norm_out' = remove_code_blocks(norm_out)
    /\ norm_pc' = "twice"
    /\ UNCHANGED <<text, cnpVars, fieldVars, runVars, dbVars>>

NormNext == Normalize \/ NormalizeAgain

SpecNorm == NormInit /\ [][NormNext]_vars

---------------------------------------------------------------------------
(* C2: remove_code_blocks returns the trimmed inner content of the first   *)
(* json-tagged fenced block when the text holds one, wherever an untagged  *)
(* block may be; otherwise the trimmed inner content of the first generic  *)
(* fenced block when it holds one; otherwise the text, trimmed.            *)

\* A closing newline-and-marker stands in t at position e.
ClosesAt(t, e) ==
    /\ e >= 1 /\ e + 3 <= Len(t)
    /\ t[e] = "NL" /\ t[e + 1] = "BT" /\ t[e + 2] = "BT" /\ t[e + 3] = "BT"

\* An opening stands in t at position i and the inner content starts at c:
\* the marker, then only whitespace, the last of it a newline.
OpensAt(t, open, i, c) ==
    /\ i >= 1 /\ i + Len(open) < c /\ c <= Len(t) + 1
    /\ \A n \in 1..Len(open) : t[i + n - 1] = open[n]
    /\ \A n \in (i + Len(open))..(c - 1) : t[n] \in {"NL", "SP"}
    /\ t[c - 1] = "NL"

\* The trimmed inner contents of the fenced blocks of t that open at i: the
\* block's content runs from c to the first closing marker at or after c.
InnersAt(t, open, i) ==
    UNION {{Strip(SubSeq(t, c, e - 1)) :
               e \in {e \in c..Len(t) :
                         ClosesAt(t, e) /\ \A n \in c..(e - 1) : ~ClosesAt(t, n)}} :
           c \in {c \in (i + Len(open) + 1)..(Len(t) + 1) : OpensAt(t, open, i, c)}}

BlockStarts(t, open) == {i \in 1..Len(t) : InnersAt(t, open, i) # {}}

\* The trimmed inner contents of the blocks that start first.
FirstBlockInners(t, open) ==
    LET starts == BlockStarts(t, open)
    IN  InnersAt(t, open, CHOOSE i \in starts : \A j \in starts : i <= j)

TaggedOpen == <<"BT", "BT", "BT", "j", "s", "o", "n">>
GenericOpen == <<"BT", "BT", "BT">>

C2_TaggedThenGenericThenTrim ==
    norm_pc = "once" =>
        IF BlockStarts(text, TaggedOpen) # {}
        THEN norm_out \in FirstBlockInners(text, TaggedOpen)
        ELSE IF BlockStarts(text, GenericOpen) # {}
        THEN norm_out \in FirstBlockInners(text, GenericOpen)
        ELSE norm_out = Strip(text)

\* A text with an untagged block before a tagged one has been normalized to
\* the tagged block's content.
C2_Witness ==
    /\ norm_pc = "once"
    /\ text = GenericBlock \o <<"NL">> \o TaggedBlock
    /\ norm_out = <<"t">>

(* C3: remove_code_blocks applied to its own result returns that result.   *)
C3_Idempotent ==
    norm_pc = "twice" => norm_out = remove_code_blocks(text)

\* The second application has run on the result of a text in which a fence
\* opens before a tagged block, so that the generic pattern also matches.
C3_Witness ==
    /\ norm_pc = "twice"
    /\ text = Fence \o <<"NL">> \o TaggedBlock
    /\ norm_out = <<"t">>

---------------------------------------------------------------------------
(* azure_services.py: get_field_value                                      *)

\* What document.fields.get(name) can be: None; a dict, with or without the key
\* "value" and with or without other keys; or a field object, with or without
\* the attribute value.
NoField == [kind |-> "None", has_value |-> FALSE, others |-> FALSE, value |-> PyNone]
DictField(has, others, v) ==
    [kind |-> "dict", has_value |-> has, others |-> others, value |-> v]
ObjectField(has, v) ==
    [kind |-> "object", has_value |-> has, others |-> FALSE, value |-> v]

\* bool(field): None and the empty dict are false, a field object is true.
FieldTruthy(f) ==
    CASE f.kind = "None" -> FALSE
      [] f.kind = "dict" -> f.has_value \/ f.others
      [] OTHER -> TRUE

get_field_value(f) ==
    IF FieldTruthy(f)
    THEN IF f.kind = "dict"
         \* field.get("value", "").strip() if field.get("value") else ""
         THEN IF f.has_value /\ Truthy(f.value)
              THEN StripValue(f.value)
              ELSE Returns(<<>>)
         \* field.value.strip() if hasattr(field, 'value') and field.value else ""
         ELSE IF f.has_value /\ Truthy(f.value)
              THEN StripValue(f.value)
              ELSE Returns(<<>>)
    ELSE Returns(<<>>)

\* The values tried: None, every str of at most MaxValueLen characters over a
\* space, a letter and a digit, two ints and a date.
MaxValueLen == 3

FieldValues ==
    {PyNone, PyInt(0), PyInt(5), PyDate}
    \cup {PyStr(s) : s \in SeqsUpTo({"SP", "a", "1"}, MaxValueLen)}

Fields ==
    {NoField, DictField(FALSE, FALSE, PyNone), DictField(FALSE, TRUE, PyNone),
     ObjectField(FALSE, PyNone)}
    \cup {DictField(TRUE, o, v) : o \in BOOLEAN, v \in FieldValues}
    \cup {ObjectField(TRUE, v) : v \in FieldValues}

FieldInit ==
    /\ field \in Fields
    /\ fv_ret = Pending
    /\ CnpIdle /\ NormIdle /\ RunIdle /\ DbIdle

ReadField ==
    /\ fv_ret = Pending
    /\ fv_ret' = get_field_value(field)
    /\ UNCHANGED <<field, cnpVars, normVars, runVars, dbVars>>

FieldNext == ReadField

SpecField == FieldInit /\ [][FieldNext]_vars

---------------------------------------------------------------------------
(* C4: get_field_value raises for no field, whatever the type of the value *)
(* in it: it returns "" for an absent field and for a missing, None or     *)
(* empty value, and the trimmed value for a truthy one.                    *)
C4_NeverRaises ==
    fv_ret.how # "pending" =>
        /\ fv_ret.how = "returned"
        /\ (~(FieldTruthy(field) /\ field.has_value /\ Truthy(field.value))
               => fv_ret.val = <<>>)
        /\ (FieldTruthy(field) /\ field.has_value /\ Truthy(field.value)
               /\ field.value.type = "str"
               => fv_ret.val = Strip(field.value.s))

---------------------------------------------------------------------------
(* json.loads, for the documents the completion backend is tried with: one *)
(* object whose member values are strings without escapes, integers or     *)
(* null.  A JSONDecodeError's message is modelled without its position     *)
(* suffix (": line L column C (char N)").                                  *)

JsonWs(c) == c \in {"SP", "NL"}

RECURSIVE SkipWs(_, _)
\* The first position from i on that holds no whitespace (Len(t) + 1 at the end).
SkipWs(t, i) == IF i <= Len(t) /\ JsonWs(t[i]) THEN SkipWs(t, i + 1) ELSE i

RECURSIVE StringEnd(_, _)
\* From position i inside a string: the position of the closing quote, 0 when
\* the text ends first, -1 when a control character comes first.
StringEnd(t, i) ==
    IF i > Len(t) THEN 0
    ELSE IF t[i] = "QT" THEN i
    ELSE IF t[i] = "NL" THEN -1
    ELSE StringEnd(t, i + 1)

RECURSIVE DigitsEnd(_, _)
\* The position after the run of ASCII digits that starts at i.
DigitsEnd(t, i) ==
    IF i <= Len(t) /\ t[i] \in AsciiDigits THEN DigitsEnd(t, i + 1) ELSE i

RECURSIVE IntOfDigits(_)
IntOfDigits(ds) ==
    IF ds = <<>> THEN 0
    ELSE 10 * IntOfDigits(SubSeq(ds, 1, Len(ds) - 1)) + IntOf(ds[Len(ds)])

ScanFail(m) == [ok |-> FALSE, msg |-> m, val |-> PyNone, next |-> 0]
ScanOk(v, n) == [ok |-> TRUE, msg |-> "", val |-> v, next |-> n]

\* A string starting at the quote at position i.
ScanString(t, i) ==
    LET e == StringEnd(t, i + 1)
    IN  IF e = 0 THEN ScanFail("Unterminated string starting at")
        ELSE IF e = -1 THEN ScanFail("Invalid control character at")
        ELSE ScanOk(PyStr(SubSeq(t, i + 1, e - 1)), e + 1)

\* A value starting at position i: a string, null, or an integer (0, or a
\* digit run that does not start with 0: after a leading 0 the number ends).
ScanValue(t, i) ==
    IF i > Len(t) THEN ScanFail("Expecting value")
    ELSE IF t[i] = "QT" THEN ScanString(t, i)
    ELSE IF OccursAt(t, i, <<"n", "u", "l", "l">>) THEN ScanOk(PyNone, i + 4)
    ELSE IF t[i] = "0" THEN ScanOk(PyInt(0), i + 1)
    ELSE IF t[i] \in AsciiDigits
         THEN ScanOk(PyInt(IntOfDigits(SubSeq(t, i, DigitsEnd(t, i) - 1))),
                     DigitsEnd(t, i))
    ELSE ScanFail("Expecting value")

\* dict[key] = value: a key given twice keeps its last value.
DictSet(obj, key, v) ==
    [k \in DOMAIN obj \cup {key} |-> IF k = key THEN v ELSE obj[k]]

\* dict.get(key, default)
DictGet(obj, key, default) == IF key \in DOMAIN obj THEN obj[key] ELSE default

EmptyDict == [k \in {} |-> PyNone]

RECURSIVE ParseMembers(_, _, _)
\* The members of an object from position i, where a key must start; obj holds
\* the members read so far.  [ok, msg, val (the dict), next].
ParseMembers(t, i, obj) ==
    IF i > Len(t) \/ t[i] # "QT"
    THEN ScanFail("Expecting property name enclosed in double quotes")
    ELSE LET key == ScanString(t, i)
             colon == SkipWs(t, key.next)
             value == ScanValue(t, SkipWs(t, colon + 1))
             after == SkipWs(t, value.next)
         IN  IF ~key.ok THEN key
             ELSE IF colon > Len(t) \/ t[colon] # ":"
                  THEN ScanFail("Expecting ':' delimiter")
             ELSE IF ~value.ok THEN value
             ELSE IF after <= Len(t) /\ t[after] = "}"
                  THEN ScanOk(DictSet(obj, key.val.s, value.val), after + 1)
             ELSE IF after <= Len(t) /\ t[after] = ","
                  THEN ParseMembers(t, SkipWs(t, after + 1),
                                    DictSet(obj, key.val.s, value.val))
             ELSE ScanFail("Expecting ',' delimiter")

\* json.loads(t) for a text whose first non-blank character is "{":
\* Returns(the dict) or Raises JSONDecodeError.
JsonLoads(t) ==
    LET open == SkipWs(t, 1)
        first == SkipWs(t, open + 1)
        parsed == IF first <= Len(t) /\ t[first] = "}"
                  THEN ScanOk(EmptyDict, first + 1)
                  ELSE ParseMembers(t, first, EmptyDict)
    IN  IF open > Len(t) \/ t[open] # "{"
        THEN Raises("JSONDecodeError", "Expecting value")
        ELSE IF ~parsed.ok THEN Raises("JSONDecodeError", parsed.msg)
        ELSE IF SkipWs(t, parsed.next) <= Len(t)
             THEN Raises("JSONDecodeError", "Extra data")
        ELSE Returns(parsed.val)

---------------------------------------------------------------------------
(* azure_services.py: the completion stages                                *)

\* A completion response: the number of choices, and choices[0].message
\* ['content'].
Response(content) == [choices |-> 1, content |-> content]
NoChoices == [choices |-> 0, content |-> PyNone]

\* response.choices[0].message['content'].strip()
ResponseContent(r) ==
    IF r.choices = 0 THEN Raises("IndexError", "list index out of range")
    ELSE StripValue(r.content)

\* F(e) with e computed once and then named, as an assignment does.
Apply(F(_), e) == CHOOSE r \in {F(x) : x \in {e}} : TRUE

\* A clean stage that returns the stripped content as it is.
CleanedFromRaw(cleaned) == cleaned

\* Lines 198-205, given the stripped content (or the exception reading it).
CleanedFrom(cleaned) ==
    IF cleaned.how = "raised" THEN cleaned
    ELSE Returns(remove_code_blocks(cleaned.val))

\* clean_text_with_openai, given how openai.ChatCompletion.create ended.
\* Lines 206-208 turn every exception of the body into a RuntimeError.
clean_text_with_openai(call) ==
    LET body == IF call.how = "raised" THEN call
                ELSE Apply(CleanedFrom, ResponseContent(call.val))
    IN  IF body.how = "raised"
        THEN Raises("RuntimeError", "Error cleaning text with OpenAI: " \o body.msg)
        ELSE body

KeySummary == <<"s", "u", "m", "m", "a", "r", "y">>
KeyFirstName == <<"f", "i", "r", "s", "t", "_", "n", "a", "m", "e">>
KeyLastName == <<"l", "a", "s", "t", "_", "n", "a", "m", "e">>
KeyCnp == <<"c", "n", "p">>

\* A shape check that lets everything through.
LooksLikeJsonAlways(content) == TRUE

\* Line 256: content.startswith("{") and content.endswith("}")
LooksLikeJson(content) ==
    /\ content # <<>>
    /\ content[1] = "{"
    /\ content[Len(content)] = "}"

\* metadata[key].strip(): a missing key raises KeyError.
FieldOfNoDefault(metadata, key) ==
    IF key \in DOMAIN metadata THEN StripValue(metadata[key])
    ELSE Raises("KeyError", "missing key")

\* metadata.get(key, "").strip()
FieldOf(metadata, key) == StripValue(DictGet(metadata, key, PyStr(<<>>)))

\* Lines 265-270: the four fields, in order; the first failure ends them.
ExtractedTuple(metadata) ==
    LET summary == FieldOf(metadata, KeySummary)
        first_name == FieldOf(metadata, KeyFirstName)
        last_name == FieldOf(metadata, KeyLastName)
        cnp == FieldOf(metadata, KeyCnp)
    IN  IF summary.how = "raised" THEN summary
        ELSE IF first_name.how = "raised" THEN first_name
        ELSE IF last_name.how = "raised" THEN last_name
        ELSE IF cnp.how = "raised" THEN cnp
        ELSE Returns(<<summary.val, first_name.val, last_name.val, cnp.val>>)

\* Lines 272-278: the JSONDecodeError handler comes first, then the handler of
\* every other Exception, the RuntimeError of line 259 included.
ExtractHandler(e) ==
    IF e.exc = "JSONDecodeError"
    THEN Raises("RuntimeError", "Error parsing JSON from OpenAI response: " \o e.msg)
    ELSE Raises("RuntimeError", "Error extracting fields with OpenAI: " \o e.msg)

\* extract_fields_with_openai ends with out; content is the content after
\* remove_code_blocks, parsed tells whether json.loads was called, and at
\* names the statement that raised.
ExtractEnd(out, content, parsed, at) ==
    [out |-> IF out.how = "raised" THEN ExtractHandler(out) ELSE out,
     content |-> content, parsed |-> parsed, at |-> at]

\* Lines 265-270, given what json.loads returned.
ExtractFromMetadata(content, metadata) ==
    IF metadata.how = "raised" THEN ExtractEnd(metadata, content, TRUE, "loads")
    ELSE Apply(LAMBDA fields :
                   ExtractEnd(fields, content, TRUE,
                              IF fields.how = "raised" THEN "fields" ELSE ""),
               ExtractedTuple(metadata.val))

\* Lines 255-262: the shape check, then json.loads.
ExtractFromContent(content) ==
    IF ~LooksLikeJson(content)
    THEN ExtractEnd(Raises("RuntimeError", "OpenAI response is not valid JSON."),
                    content, FALSE, "shape")
    ELSE Apply(LAMBDA metadata : ExtractFromMetadata(content, metadata),
               JsonLoads(content))

\* Lines 248-253, given the stripped content (or the exception reading it).
ExtractFromResponse(got) ==
    IF got.how = "raised" THEN ExtractEnd(got, <<>>, FALSE, "response")
    ELSE Apply(ExtractFromContent, remove_code_blocks(got.val))

\* extract_fields_with_openai, given how openai.ChatCompletion.create ended.
extract_fields_with_openai(call) ==
    IF call.how = "raised" THEN ExtractEnd(call, <<>>, FALSE, "create")
    ELSE Apply(ExtractFromResponse, ResponseContent(call.val))

---------------------------------------------------------------------------
(* What the backends are tried with                                        *)

\* str(e) of a failed backend call.
BackendMessages == {"Connection timed out", "OpenAI response is not valid JSON."}

\* A code that validate_cnp accepts, and the same code with another last digit.
ValidCnp == <<"1">> \o CnpMid \o <<"0", "1">>
InvalidCnp == <<"1">> \o CnpMid \o <<"0", "2">>

\* The raw PersonalNumber values: valid, valid with stray spaces and a dot,
\* checksum-invalid, too short with a letter, empty, blank, and a short one
\* with a superscript two and a non-ASCII digit.
RawNumbers ==
    {ValidCnp,
     <<"SP", "1", "SP">> \o CnpMid \o <<".", "0", "1", "SP">>,
     InvalidCnp,
     <<"1", "2", "a", "3">>,
     <<>>,
     <<"SP">>,
     <<"1", "SUP2", "U3">>}

NumberFields ==
    {ObjectField(TRUE, PyStr(r)) : r \in RawNumbers}
    \cup {NoField, ObjectField(TRUE, PyInt(5)), DictField(TRUE, FALSE, PyStr(ValidCnp))}

\* FirstName and LastName together: a missing first name; both present, with
\* blanks around them; a first name that is no str.
NameFields ==
    {<<NoField, ObjectField(TRUE, PyStr(<<"P", "o", "p">>))>>,
     <<ObjectField(TRUE, PyStr(<<"SP", "A", "n", "a", "SP">>)),
       DictField(TRUE, FALSE, PyStr(<<"P", "o", "p", "SP">>))>>,
     <<ObjectField(TRUE, PyDate), ObjectField(TRUE, PyStr(<<"P", "o", "p">>))>>}

\* A recognized document: document.fields.get(name) for the three names read.
Documents ==
    {[FirstName |-> names[1], LastName |-> names[2], PersonalNumber |-> number] :
        names \in NameFields, number \in NumberFields}

\* result.documents of the identity model: up to MaxDocs documents.
MaxDocs == 2

IdResponses == SeqsUpTo(Documents, MaxDocs)

\* result.pages of the read model: the lines' contents, page by page.
LineAna == <<"A", "n", "a", "SP", "P", "o", "p">>
LineNum == <<"c", "n", "p", "SP", "1", "9">>

ReadResponses ==
    {<<>>, <<<<LineAna, LineNum>>>>, <<<<LineAna>>, <<>>, <<LineNum>>>>}

\* What the clean completion answers: plain text with blanks around it, the
\* text in a fenced block, nothing, a content of None, no choice at all.
CleanResponses ==
    {Response(PyStr(<<"SP">> \o LineAna \o <<"NL">>)),
     Response(PyStr(Fence \o <<"NL">> \o LineAna \o CloseFence)),
     Response(PyStr(<<>>)),
     Response(PyNone),
     NoChoices}

Quoted(str) == <<"QT">> \o str \o <<"QT">>
Member(key, valueText) == Quoted(key) \o <<":">> \o valueText

\* The member lists of the envelopes without the cnp member.
ThreeMembers ==
    Member(KeySummary, Quoted(<<"s">>)) \o <<",">>
    \o Member(KeyFirstName, Quoted(<<"SP", "A", "SP">>)) \o <<",", "SP">>
    \o Member(KeyLastName, Quoted(<<"B">>))

\* The texts of the cnp value: a valid code, one with blanks around it, an
\* invalid one, the empty string, a number, null.
CnpValueTexts ==
    {Quoted(ValidCnp), Quoted(<<"SP">> \o ValidCnp \o <<"SP">>), Quoted(InvalidCnp),
     Quoted(<<>>), <<"4", "2">>, <<"n", "u", "l", "l">>}

\* Texts that parse: the four keys; a key missing; no key at all; an extra
\* key; a key given twice; blanks and newlines between the tokens.
GoodEnvelopes ==
    {<<"{">> \o ThreeMembers \o <<",">> \o Member(KeyCnp, v) \o <<"}">> :
        v \in CnpValueTexts}
    \cup
    {<<"{">> \o ThreeMembers \o <<"}">>,
     <<"{", "}">>,
     <<"{">> \o Member(KeyCnp, Quoted(ValidCnp)) \o <<",">>
         \o Member(<<"a", "g", "e">>, <<"5">>) \o <<"}">>,
     <<"{">> \o Member(KeyCnp, Quoted(InvalidCnp)) \o <<",">>
         \o Member(KeyCnp, Quoted(ValidCnp)) \o <<"}">>,
     <<"{", "NL", "SP">> \o Quoted(KeyCnp) \o <<"SP", ":", "SP">> \o Quoted(ValidCnp)
         \o <<"NL", "}">>,
     <<"{">> \o Member(KeySummary, <<"0">>) \o <<"}">>}

\* Texts in braces that do not parse: a trailing comma, a missing colon, an
\* unterminated string, a newline in a string, a bare word, a missing comma,
\* a number with a leading zero, two objects.
BadEnvelopes ==
    {<<"{">> \o Member(KeyCnp, Quoted(ValidCnp)) \o <<",", "}">>,
     <<"{">> \o Quoted(KeyCnp) \o Quoted(ValidCnp) \o <<"}">>,
     <<"{">> \o Quoted(KeyCnp) \o <<":", "QT", "1", "}">>,
     <<"{">> \o Member(KeyCnp, Quoted(<<"1", "NL", "2">>)) \o <<"}">>,
     <<"{">> \o Member(KeyCnp, <<"a", "b", "c">>) \o <<"}">>,
     <<"{">> \o Member(KeyCnp, Quoted(<<"1">>)) \o <<"SP">>
         \o Member(KeySummary, Quoted(<<"s">>)) \o <<"}">>,
     <<"{">> \o Member(KeyCnp, <<"0", "1">>) \o <<"}">>,
     <<"{", "}", "SP", "{", "}">>,
     <<"{", "a", "}">>}

\* Texts without the enclosing braces: prose, an array, an object followed
\* or preceded by prose, nothing.
Unbraced ==
    {<<"S", "o", "r", "r", "y">>,
     <<"[", "1", "]">>,
     <<"{", "}", "SP", "o", "k">>,
     <<"c", "n", "p", ":", "SP", "{", "}">> ,
     <<>>}

\* A text as the completion may wrap it: bare, in blanks, in a tagged block,
\* in a generic block, in a tagged block after a line of prose.
Wrappings(t) ==
    {t,
     <<"SP", "NL">> \o t \o <<"NL">>,
     Fence \o JsonTag \o <<"NL">> \o t \o CloseFence,
     Fence \o <<"NL">> \o t \o CloseFence,
     <<"H", "i", ":", "NL">> \o Fence \o JsonTag \o <<"NL">> \o t \o CloseFence}

ExtractTexts ==
    UNION {Wrappings(t) : t \in GoodEnvelopes \cup BadEnvelopes \cup Unbraced}

ExtractResponses ==
    {Response(PyStr(t)) : t \in ExtractTexts} \cup {Response(PyNone), NoChoices}

---------------------------------------------------------------------------
(* azure_services.py: the two pipelines; main.py: the two caller flows     *)

\* The exception classes raised in the model; all derive from Exception.
ExceptionClasses ==
    {"RuntimeError", "AttributeError", "IndexError", "KeyError", "JSONDecodeError",
     "HttpResponseError", "APIError"}

\* A handler "except RuntimeError".
CaughtIfRuntimeError(exc) == exc = "RuntimeError"

\* Lines 114 and 158: "except Exception as e".
PipelineCatches(exc) == exc \in ExceptionClasses

\* main.py lines 64 and 108: the message of the flow's own handler.
FlowError(m) ==
    IF flow = "id" THEN "Error processing the ID card: " \o m
    ELSE "Error processing the handwritten document: " \o m

\* An exception e, raised by the statement at, reaches the end of the
\* pipeline's try block: lines 114-116 and 158-160 return {"error": str(e)};
\* an exception they do not catch leaves the pipeline for main.py's handler.
PipelineFails(e, at) ==
    /\ raised_at' = at
    /\ IF PipelineCatches(e.exc)
       THEN /\ result' = [error |-> e.msg]
            /\ pc' = "returned"
            /\ UNCHANGED <<escaped, ui>>
       ELSE /\ escaped' = TRUE
            /\ ui' = Append(ui, FlowError(e.msg))
            /\ pc' = "done"
            /\ UNCHANGED result

\* How a backend call ends: with one of the responses, or with an exception.
CallOutcomes(responses, exc) ==
    {Returns(r) : r \in responses} \cup {Raises(exc, m) : m \in BackendMessages}

\* ''.join(filter(str.isalnum, cnp_raw)), for the characters tried.
FilterAlnum(cnp_raw) == SelectSeq(cnp_raw, LAMBDA c : ~IsSpace(c) /\ c # ".")

\* Line 109: ''.join(filter(str.isdigit, cnp_raw))
FilterDigits(cnp_raw) == SelectSeq(cnp_raw, IsDigitChar)

RECURSIVE ReadDocuments(_, _, _)
\* Lines 100-112: the loop over result.documents from the i-th on; every
\* document overwrites the three keys of extracted_data.
ReadDocuments(documents, i, extracted_data) ==
    IF i > Len(documents) THEN Returns(extracted_data)
    ELSE LET first_name == get_field_value(documents[i].FirstName)
             last_name == get_field_value(documents[i].LastName)
             cnp_raw == get_field_value(documents[i].PersonalNumber)
         IN  IF first_name.how = "raised" THEN first_name
             ELSE IF last_name.how = "raised" THEN last_name
             ELSE IF cnp_raw.how = "raised" THEN cnp_raw
             ELSE ReadDocuments(documents, i + 1,
                                [first_name |-> first_name.val,
                                 last_name |-> last_name.val,
                                 cnp |-> FilterDigits(cnp_raw.val)])

RECURSIVE JoinLines(_)
\* "\n".join(lines)
JoinLines(lines) ==
    IF lines = <<>> THEN <<>>
    ELSE IF Len(lines) = 1 THEN lines[1]
    ELSE lines[1] \o <<"NL">> \o JoinLines(Tail(lines))

RECURSIVE AllLines(_)
\* [line.content for page in result.pages for line in page.lines]
AllLines(pages) == IF pages = <<>> THEN <<>> ELSE pages[1] \o AllLines(Tail(pages))

\* Line 142
OcrText(pages) == JoinLines(AllLines(pages))

Init ==
    /\ flow \in {"id", "hw"}
    /\ pc = "upload"
    /\ ocr_resp = <<>> /\ clean_resp = Pending /\ cleaned_text = <<>>
    /\ json_text = <<>> /\ calls = <<>> /\ loads_called = FALSE /\ raised_at = ""
    /\ result = <<>> /\ escaped = FALSE /\ ui = <<>> /\ writes = <<>>
    /\ CnpIdle /\ NormIdle /\ FieldIdle /\ DbIdle

\* main.py lines 29 and 73: validate_and_prepare_file returns the bytes or
\* raises RuntimeError, which the flow's handler shows.
Prepare ==
    /\ pc = "upload"
    /\ \/ /\ pc' = "ocr"
          /\ UNCHANGED ui
       \/ /\ pc' = "done"
          /\ ui' = Append(ui, FlowError("Error validating or preparing file"))
    /\ UNCHANGED <<flow, ocr_resp, clean_resp, cleaned_text, json_text, calls,
                   loads_called, raised_at, result, escaped, writes,
                   cnpVars, normVars, fieldVars, dbVars>>

\* process_id_document, lines 87-96: the client, the call, the poller's result.
IdAnalyze ==
    /\ flow = "id" /\ pc = "ocr"
    /\ calls' = Append(calls, [backend |-> "ocr", stage |-> "prebuilt-idDocument",
                               input |-> <<>>])
    /\ \/ \E m \in BackendMessages :
             /\ PipelineFails(Raises("HttpResponseError", m), "analyze")
             /\ UNCHANGED ocr_resp
       \/ \E documents \in IdResponses :
             /\ ocr_resp' = documents
             /\ pc' = "fields"
             /\ UNCHANGED <<raised_at, result, escaped, ui>>
    /\ UNCHANGED <<flow, clean_resp, cleaned_text, json_text, loads_called, writes,
                   cnpVars, normVars, fieldVars, dbVars>>

\* process_id_document, lines 99-112: the loop and the return.
IdFields ==
    /\ flow = "id" /\ pc = "fields"
    /\ \E read \in {ReadDocuments(ocr_resp, 1, EmptyDict)} :
           IF read.how = "raised"
           THEN PipelineFails(read, "fields")
           ELSE /\ result' = read.val
                /\ pc' = "returned"
                /\ UNCHANGED <<raised_at, escaped, ui>>
    /\ UNCHANGED <<flow, ocr_resp, clean_resp, cleaned_text, json_text, calls,
                   loads_called, writes, cnpVars, normVars, fieldVars, dbVars>>

\* process_handwritten_document, lines 130-143.
HwOcr ==
    /\ flow = "hw" /\ pc = "ocr"
    /\ calls' = Append(calls, [backend |-> "ocr", stage |-> "prebuilt-read",
                               input |-> <<>>])
    /\ \/ \E m \in BackendMessages :
             /\ PipelineFails(Raises("HttpResponseError", m), "analyze")
             /\ UNCHANGED ocr_resp
       \/ \E pages \in ReadResponses :
             /\ ocr_resp' = pages
             /\ pc' = "clean"
             /\ UNCHANGED <<raised_at, result, escaped, ui>>
    /\ UNCHANGED <<flow, clean_resp, cleaned_text, json_text, loads_called, writes,
                   cnpVars, normVars, fieldVars, dbVars>>

\* Line 146: clean_text_with_openai(ocr_text).
HwClean ==
    /\ flow = "hw" /\ pc = "clean"
    /\ calls' = Append(calls, [backend |-> "completion", stage |-> "clean",
                               input |-> OcrText(ocr_resp)])
    /\ \E call \in CallOutcomes(CleanResponses, "APIError") :
          /\ clean_resp' = call
          /\ \E cleaned \in {clean_text_with_openai(call)} :
                 IF cleaned.how = "raised"
                 THEN /\ PipelineFails(cleaned, "clean")
                      /\ UNCHANGED cleaned_text
                 ELSE /\ cleaned_text' = cleaned.val
                      /\ pc' = "extract"
                      /\ UNCHANGED <<raised_at, result, escaped, ui>>
    /\ UNCHANGED <<flow, ocr_resp, json_text, loads_called, writes,
                   cnpVars, normVars, fieldVars, dbVars>>

\* Lines 148-156: extract_fields_with_openai(cleaned_text) and the return.
HwExtract ==
    /\ flow = "hw" /\ pc = "extract"
    /\ calls' = Append(calls, [backend |-> "completion", stage |-> "extract",
                               input |-> cleaned_text])
    /\ \E call \in CallOutcomes(ExtractResponses, "APIError") :
          \E extracted \in {extract_fields_with_openai(call)} :
              /\ json_text' = extracted.content
              /\ loads_called' = extracted.parsed
              /\ IF extracted.out.how = "raised"
                 THEN PipelineFails(extracted.out, extracted.at)
                 ELSE /\ result' = [extracted_text |-> cleaned_text,
                                    summary |-> extracted.out.val[1],
                                    first_name |-> extracted.out.val[2],
                                    last_name |-> extracted.out.val[3],
                                    cnp |-> extracted.out.val[4]]
                      /\ pc' = "returned"
                      /\ UNCHANGED <<raised_at, escaped, ui>>
    /\ UNCHANGED <<flow, ocr_resp, clean_resp, cleaned_text, writes,
                   cnpVars, normVars, fieldVars, dbVars>>

\* result.get(key, "").strip(), as main.py reads a result without "error".
ResultField(key) == Strip(DictGet(result, key, <<>>))

\* A check that accepts every number.
CnpNeverRejected(cnp) == ""

\* main.py lines 48-53: the message of the check that stops the ID flow, ""
\* when the number passes.
IdCnpRejection(cnp) ==
    IF cnp = <<>> THEN "Personal number (CNP) not found in the ID document."
    ELSE IF validate_cnp(cnp) # "True"
         THEN "Invalid CNP format. Please verify the ID card."
    ELSE ""

\* main.py lines 96-98: "if cnp and not validate_cnp(cnp)".
HwCnpRejection(cnp) ==
    IF cnp # <<>> /\ validate_cnp(cnp) # "True"
    THEN "Invalid CNP format extracted from handwritten text."
    ELSE ""

\* main.py lines 34-53: the ID flow after process_id_document returned.
CheckId ==
    /\ flow = "id" /\ pc = "returned"
    /\ IF "error" \in DOMAIN result
       THEN /\ ui' = Append(ui, "Error processing ID document: " \o result.error)
            /\ pc' = "done"
       ELSE IF IdCnpRejection(ResultField("cnp")) # ""
       THEN /\ ui' = ui \o <<"ID Data extracted successfully!",
                              IdCnpRejection(ResultField("cnp"))>>
            /\ pc' = "done"
       ELSE /\ ui' = ui \o <<"ID Data extracted successfully!", "Validated CNP">>
            /\ pc' = "button"
    /\ UNCHANGED <<flow, ocr_resp, clean_resp, cleaned_text, json_text, calls,
                   loads_called, raised_at, result, escaped, writes,
                   cnpVars, normVars, fieldVars, dbVars>>

\* main.py lines 78-98: the handwritten flow after the pipeline returned.
CheckHw ==
    /\ flow = "hw" /\ pc = "returned"
    /\ IF "error" \in DOMAIN result
       THEN /\ ui' = Append(ui, "Error processing handwritten document: "
                                    \o result.error)
            /\ pc' = "done"
       ELSE IF HwCnpRejection(ResultField("cnp")) # ""
       THEN /\ ui' = ui \o <<"Handwritten text processed successfully!",
                              HwCnpRejection(ResultField("cnp"))>>
            /\ pc' = "done"
       ELSE /\ ui' = Append(ui, "Handwritten text processed successfully!")
            /\ pc' = "button"
    /\ UNCHANGED <<flow, ocr_resp, clean_resp, cleaned_text, json_text, calls,
                   loads_called, raised_at, result, escaped, writes,
                   cnpVars, normVars, fieldVars, dbVars>>

\* database.py: the pyodbc calls of one save, in the order the code makes
\* them.
DbCalls == <<"connect", "cursor", "execute", "commit">>

\* What a failing pyodbc call raises: a pyodbc.Error (the handlers of lines
\* 37, 65 and 98) or another Exception (the handlers of lines 40, 68, 101).
DbExceptions == {"pyodbc.Error", "TypeError"}

\* How the store behaves during one save: the first call that fails ("none"
\* when all succeed) and what it raises.  conn.close() on a connection that
\* is open returns.
DbScripts ==
    {[fail_at |-> "none", exc |-> ""]}
    \cup {[fail_at |-> DbCalls[i], exc |-> e] :
            i \in 1..Len(DbCalls), e \in DbExceptions}

\* str(e) of a failed pyodbc call.
DbFailure(call) == call \o " failed"

\* str(e) of the UnboundLocalError for a local that was never assigned
\* (the wording of CPython 3.11 and later).
UnboundConn == "cannot access local variable 'conn' where it is not associated with a value"

\* get_db_connection, lines 23-42: the connection, or the RuntimeError both
\* handlers raise.
get_db_connection(script) ==
    IF script.fail_at = "connect"
    THEN Raises("RuntimeError", "Error connecting to the database: " \o DbFailure("connect"))
    ELSE Returns("conn")

\* Lines 54-64 (87-97): the try body; conn is bound once get_db_connection
\* returned.
SaveTry(script) ==
    LET conn == get_db_connection(script)
    IN  IF conn.how = "raised" THEN conn
        ELSE IF script.fail_at # "none" THEN Raises(script.exc, DbFailure(script.fail_at))
        ELSE Returns(PyNone)

\* Lines 65-70 (98-103): both handlers raise RuntimeError(prefix + str(e)).
SaveHandled(prefix, body) ==
    IF body.how = "raised" THEN Raises("RuntimeError", prefix \o body.msg) ELSE body

\* Lines 71-73 (104-106): conn.close() in the finally clause.  When
\* get_db_connection raised, conn was never assigned: reading it raises
\* UnboundLocalError, which replaces the exception in flight.
SaveFinally(script, handled) ==
    IF script.fail_at = "connect" THEN Raises("UnboundLocalError", UnboundConn)
    ELSE handled

\* One save: how it ends, the connections opened, the calls of close, and
\* whether the INSERT was committed.
Save(script, prefix) ==
    [out |-> SaveFinally(script, SaveHandled(prefix, SaveTry(script))),
     opened |-> IF script.fail_at = "connect" THEN 0 ELSE 1,
     closed |-> IF script.fail_at = "connect" THEN 0 ELSE 1,
     committed |-> script.fail_at = "none"]

\* database.py lines 44-73
save_id_data(script) == Save(script, "Error saving ID data to the database: ")

\* database.py lines 75-106
save_processed_text(script) ==
    Save(script, "Error saving processed text data to the database: ")

\* main.py lines 56-61: the button is pressed and save_id_data is called; the
\* flow shows the success, or the message of the exception the call raised.
SaveIdData ==
    /\ flow = "id" /\ pc = "button"
    /\ \E script \in DbScripts : \E r \in {save_id_data(script)} :
          /\ save_ret' = r.out
          /\ conn_opened' = conn_opened + r.opened
          /\ conn_closed' = conn_closed + r.closed
          /\ writes' = IF r.committed
                       THEN Append(writes, [table |-> "id_data",
                                            first_name |-> ResultField("first_name"),
                                            last_name |-> ResultField("last_name"),
                                            cnp |-> ResultField("cnp")])
                       ELSE writes
          /\ ui' = IF r.out.how = "raised"
                   THEN Append(ui, "Error saving ID data: " \o r.out.msg)
                   ELSE Append(ui, "ID Data saved to database")
    /\ pc' = "done"
    /\ UNCHANGED <<flow, ocr_resp, clean_resp, cleaned_text, json_text, calls,
                   loads_called, raised_at, result, escaped,
                   cnpVars, normVars, fieldVars>>

\* main.py lines 100-105: the button is pressed and save_processed_text is
\* called.
SaveProcessedText ==
    /\ flow = "hw" /\ pc = "button"
    /\ \E script \in DbScripts : \E r \in {save_processed_text(script)} :
          /\ save_ret' = r.out
          /\ conn_opened' = conn_opened + r.opened
          /\ conn_closed' = conn_closed + r.closed
          /\ writes' = IF r.committed
                       THEN Append(writes, [table |-> "processed_text",
                                            extracted_text |-> ResultField("extracted_text"),
                                            summary |-> ResultField("summary"),
                                            first_name |-> ResultField("first_name"),
                                            last_name |-> ResultField("last_name"),
                                            cnp |-> ResultField("cnp")])
                       ELSE writes
          /\ ui' = IF r.out.how = "raised"
                   THEN Append(ui, "Error saving handwritten data: " \o r.out.msg)
                   ELSE Append(ui, "Handwritten data saved to database successfully!")
    /\ pc' = "done"
    /\ UNCHANGED <<flow, ocr_resp, clean_resp, cleaned_text, json_text, calls,
                   loads_called, raised_at, result, escaped,
                   cnpVars, normVars, fieldVars>>

\* main.py lines 56 and 100: st.button returns False; the run ends.
NoSave ==
    /\ pc = "button"
    /\ pc' = "done"
    /\ UNCHANGED <<flow, ocr_resp, clean_resp, cleaned_text, json_text, calls,
                   loads_called, raised_at, result, escaped, ui, writes,
                   cnpVars, normVars, fieldVars, dbVars>>

Next ==
    \/ Prepare
    \/ IdAnalyze \/ IdFields
    \/ HwOcr \/ HwClean \/ HwExtract
    \/ CheckId \/ CheckHw
    \/ SaveIdData \/ SaveProcessedText \/ NoSave

Spec == Init /\ [][Next]_vars

---------------------------------------------------------------------------
(* C5: no exception leaves process_id_document or                          *)
(* process_handwritten_document: a failure at any step ends the call with  *)
(* a returned result whose "error" key holds a message string, and a       *)
(* result with an "error" key holds nothing else.                          *)
C5_FailuresBecomeErrorResults ==
    /\ ~escaped
    /\ raised_at # "" =>
          /\ pc \in {"returned", "done"}
          /\ "error" \in DOMAIN result
    /\ "error" \in DOMAIN result =>
          /\ DOMAIN result = {"error"}
          /\ result.error \in STRING
          /\ raised_at # ""

\* The field post-processing of the extract stage has failed and the
\* handwritten pipeline has returned an error result.
C5_Witness ==
    /\ flow = "hw" /\ raised_at = "fields" /\ pc = "returned"
    /\ "error" \in DOMAIN result

(* C6: one run of process_handwritten_document calls the backends in the   *)
(* order OCR, clean, extract, each at most once; the clean call is given   *)
(* the OCR transcript, the extract call the normalized clean output; after *)
(* a failure no further call is issued and one error is returned.          *)
StageOrder == <<"prebuilt-read", "clean", "extract">>

\* The number of calls issued when the statement at raised.
CallsWhenRaised(at) ==
    CASE at = "analyze" -> 1
      [] at = "clean" -> 2
      [] OTHER -> 3

C6_StagesInOrder ==
    flow = "hw" =>
        /\ Len(calls) <= Len(StageOrder)
        /\ \A i \in 1..Len(calls) : calls[i].stage = StageOrder[i]
        /\ Len(calls) >= 2 => calls[2].input = JoinLines(AllLines(ocr_resp))
        /\ Len(calls) >= 3 =>
              /\ clean_resp.how = "returned"
              /\ calls[3].input = remove_code_blocks(Strip(clean_resp.val.content.s))
        /\ raised_at # "" =>
              /\ Len(calls) = CallsWhenRaised(raised_at)
              /\ DOMAIN result = {"error"}

\* The clean call has failed: two calls were issued and the run is over.
C6_Witness ==
    /\ flow = "hw" /\ pc = "done" /\ raised_at = "clean"
    /\ Len(calls) = 2

(* C7: in the extract stage, content that does not both begin with "{" and *)
(* end with "}" is not parsed and ends the call with the shape-failure     *)
(* message; brace-enclosed content that fails to parse ends it with a      *)
(* parse-failure message, which is never the shape-failure message.        *)
ShapeFailureMessage ==
    "Error extracting fields with OpenAI: OpenAI response is not valid JSON."

ParseFailureMessages ==
    {"Error parsing JSON from OpenAI response: " \o m :
        m \in {"Expecting value", "Expecting property name enclosed in double quotes",
               "Expecting ':' delimiter", "Expecting ',' delimiter", "Extra data",
               "Unterminated string starting at", "Invalid control character at"}}

BraceEnclosed(t) == t # <<>> /\ Head(t) = "{" /\ t[Len(t)] = "}"

\* The extract stage got a response with a str content.
ExtractGotContent ==
    /\ flow = "hw" /\ Len(calls) = 3 /\ pc # "extract"
    /\ raised_at \notin {"create", "response"}

C7_ShapeAndParseFailuresDiffer ==
    ExtractGotContent =>
        /\ ~BraceEnclosed(json_text) =>
              /\ ~loads_called
              /\ raised_at = "shape"
              /\ result = [error |-> ShapeFailureMessage]
        /\ raised_at = "loads" =>
              /\ BraceEnclosed(json_text)
              /\ loads_called
              /\ result.error \in ParseFailureMessages
              /\ result.error # ShapeFailureMessage

\* A braced text with a trailing comma has failed to parse.
C7_Witness ==
    /\ ExtractGotContent /\ raised_at = "loads"
    /\ json_text = <<"{">> \o Member(KeyCnp, Quoted(ValidCnp)) \o <<",", "}">>

(* C8, as stated: whenever the normalized content is brace-enclosed and    *)
(* parses as a JSON object, the extract stage succeeds and each of         *)
(* summary, first_name, last_name, cnp is the trimmed value of its key, or *)
(* "" when the key is missing.                                             *)
TrimmedOrEmpty(obj, key) == IF key \in DOMAIN obj THEN Strip(obj[key].s) ELSE <<>>

FourKeys == {KeySummary, KeyFirstName, KeyLastName, KeyCnp}

ExtractReturnsTrimmed(obj) ==
    /\ raised_at = ""
    /\ "error" \notin DOMAIN result
    /\ result.summary = TrimmedOrEmpty(obj, KeySummary)
    /\ result.first_name = TrimmedOrEmpty(obj, KeyFirstName)
    /\ result.last_name = TrimmedOrEmpty(obj, KeyLastName)
    /\ result.cnp = TrimmedOrEmpty(obj, KeyCnp)

C8_AnyObjectSucceeds ==
    (ExtractGotContent /\ BraceEnclosed(json_text)
        /\ JsonLoads(json_text).how = "returned")
    => ExtractReturnsTrimmed(JsonLoads(json_text).val)

(* C8, amended: whenever the normalized content is brace-enclosed and      *)
(* parses as a JSON object in which every one of the four keys that is     *)
(* present has a string value, the extract stage succeeds with the trimmed *)
(* values, "" for a missing key; extra keys are ignored.                   *)
C8_ObjectOfStringsSucceeds ==
    (ExtractGotContent /\ BraceEnclosed(json_text)
        /\ JsonLoads(json_text).how = "returned"
        /\ \A k \in FourKeys \cap DOMAIN JsonLoads(json_text).val :
              JsonLoads(json_text).val[k].type = "str")
    => ExtractReturnsTrimmed(JsonLoads(json_text).val)

\* An object without the cnp key, fenced and with an extra key, has been
\* extracted.
C8_Witness ==
    /\ ExtractGotContent /\ pc = "returned" /\ raised_at = ""
    /\ json_text = <<"{">> \o ThreeMembers \o <<"}">>
    /\ result.cnp = <<>> /\ result.first_name = <<"A">>

(* C9: when process_id_document succeeds on a response with documents,   *)
(* the cnp it returns holds only digit characters (the characters          *)
(* str.isdigit accepts): it is the raw PersonalNumber value of the         *)
(* document the result was read from, with every other character removed   *)
(* and the order of the digits kept.                                       *)
IsdigitChars == {"0", "1", "2", "3", "4", "5", "6", "7", "8", "9", "U1", "U3", "SUP2"}

RECURSIVE DigitsInOrder(_)
DigitsInOrder(raw) ==
    IF raw = <<>> THEN <<>>
    ELSE IF Head(raw) \in IsdigitChars
         THEN <<Head(raw)>> \o DigitsInOrder(Tail(raw))
         ELSE DigitsInOrder(Tail(raw))

\* The string a recognized field carries, "" for an absent or empty one.
RawValue(f) ==
    IF f.kind # "None" /\ f.has_value /\ f.value.type = "str" THEN f.value.s ELSE <<>>

IdSucceeded ==
    /\ flow = "id" /\ pc \in {"returned", "button", "done"}
    /\ calls # <<>> /\ ~escaped /\ "error" \notin DOMAIN result

C9_CnpIsDigitsOfRawValue ==
    (IdSucceeded /\ ocr_resp # <<>>) =>
        /\ \A i \in 1..Len(result.cnp) : result.cnp[i] \in IsdigitChars
        /\ result.cnp = DigitsInOrder(RawValue(ocr_resp[Len(ocr_resp)].PersonalNumber))

\* A number printed with spaces and a dot has been reduced to its digits.
C9_Witness ==
    /\ IdSucceeded /\ Len(ocr_resp) = 1
    /\ RawValue(ocr_resp[1].PersonalNumber) # ValidCnp
    /\ \E i \in 1..Len(RawValue(ocr_resp[1].PersonalNumber)) :
          RawValue(ocr_resp[1].PersonalNumber)[i] \notin IsdigitChars \cup {"SP", "NL"}
    /\ result.cnp = ValidCnp

(* C10, as stated: in both flows a row is written only after the pipeline  *)
(* returned without an error and the extracted number is present and       *)
(* accepted by validate_cnp; an absent or rejected number gives a          *)
(* validation error and no write.                                          *)
ValidationErrors ==
    {"Personal number (CNP) not found in the ID document.",
     "Invalid CNP format. Please verify the ID card.",
     "Invalid CNP format extracted from handwritten text."}

\* The pipeline of the flow has returned a result without an error and the
\* flow has checked the number.
NumberChecked ==
    /\ pc \in {"button", "done"}
    /\ calls # <<>> /\ ~escaped /\ "error" \notin DOMAIN result

\* The number the flow reads from the result: .get("cnp", "").strip()
ExtractedNumber == IF "cnp" \in DOMAIN result THEN Strip(result.cnp) ELSE <<>>

CnpAccepted(s) == CnpWellFormed(s) /\ CnpChecksumOk(s)

StoppedWithValidationError ==
    /\ writes = <<>>
    /\ pc = "done"
    /\ ui # <<>> /\ ui[Len(ui)] \in ValidationErrors

WrittenAfterSuccess ==
    writes # <<>> =>
        /\ Len(writes) = 1
        /\ NumberChecked /\ raised_at = ""
        /\ writes[1].cnp = ExtractedNumber

C10_WriteNeedsAcceptedNumber ==
    /\ WrittenAfterSuccess
    /\ writes # <<>> =>
          /\ writes[1].cnp # <<>>
          /\ CnpAccepted(writes[1].cnp)
    /\ (NumberChecked /\ ~(ExtractedNumber # <<>> /\ CnpAccepted(ExtractedNumber)))
          => StoppedWithValidationError

(* C10, amended: a row is written only after the pipeline returned without *)
(* an error. In the ID flow the write needs a number that is present and   *)
(* accepted by validate_cnp, and an absent or rejected number gives a      *)
(* validation error and no write. In the handwritten flow the write needs  *)
(* a number that is absent or accepted: only a present, rejected number    *)
(* gives a validation error and no write.                                  *)
C10_WriteNeedsNoRejectedNumber ==
    /\ WrittenAfterSuccess
    /\ writes # <<>> =>
          /\ flow = "id" => writes[1].cnp # <<>>
          /\ writes[1].cnp # <<>> => CnpAccepted(writes[1].cnp)
    /\ (NumberChecked /\ ExtractedNumber # <<>> /\ ~CnpAccepted(ExtractedNumber))
          => StoppedWithValidationError
    /\ (NumberChecked /\ flow = "id" /\ ExtractedNumber = <<>>)
          => StoppedWithValidationError

\* The handwritten flow has written a row whose number is absent.
C10_Witness ==
    /\ flow = "hw" /\ writes # <<>>
    /\ writes[1].table = "processed_text" /\ writes[1].cnp = <<>>

(* C11: when the identity response holds one or more recognized documents *)
(* and process_id_document succeeds, first_name, last_name and cnp are     *)
(* those of the first document; later documents never change them.         *)
C11_FirstDocumentWins ==
    (IdSucceeded /\ ocr_resp # <<>>) =>
        /\ result.first_name = Strip(RawValue(ocr_resp[1].FirstName))
        /\ result.last_name = Strip(RawValue(ocr_resp[1].LastName))
        /\ result.cnp = DigitsInOrder(RawValue(ocr_resp[1].PersonalNumber))

(* C12: every failure of save_id_data and save_processed_text, a failure  *)
(* to open the connection included, reaches the caller as a RuntimeError   *)
(* whose message starts with the operation's "Error saving ... to the      *)
(* database" text and carries the cause; closing the connection never      *)
(* replaces that error, and an opened connection is closed exactly once.   *)
SaveErrorPrefix ==
    IF flow = "id" THEN "Error saving ID data to the database: "
    ELSE "Error saving processed text data to the database: "

SaveCauses ==
    {"Error connecting to the database: connect failed",
     "cursor failed", "execute failed", "commit failed"}

C12_SaveFailuresAreRuntimeErrors ==
    save_ret.how # "pending" =>
        /\ save_ret.how = "raised" =>
              /\ save_ret.exc = "RuntimeError"
              /\ save_ret.msg \in {SaveErrorPrefix \o c : c \in SaveCauses}
        /\ writes = <<>> => save_ret.how = "raised"
        /\ conn_opened <= 1
        /\ conn_closed = conn_opened

===========================================================================
